---- MODULE Spec2Model ----
(***************************************************************************)
(* State-machine model of solr_fstats.py: one run of run() against a       *)
(* remote Solr index.  Every remote call is one step; the response the     *)
(* index gives is the step's input.  Field names and response bodies are   *)
(* sequences of characters, so that splitlines(), split(',') and the       *)
(* ordering of SortedSet are computed as Python computes them.             *)
(***************************************************************************)
EXTENDS Integers, Sequences, FiniteSets, TLC

VARIABLES
    pc,             \* position of run(): the call that is about to be made
    docs,           \* the index: bag of documents (document type -> how many)
    changed,        \* the index was updated since this run started
    schema_fields,  \* get_fields: result of get_schema_fields
    used_fields,    \* get_fields: result of get_used_fields
    fields,         \* run: the SortedSet returned by get_fields, in iteration order
    records_total,  \* run: total
    idx,            \* position of the iteration over fields / over the stats rows
    field_stats,    \* get_all_field_statistics: result of the field-present call
    stats,          \* run: the list of per-field dictionaries
    stdout,         \* rows written to sys.stdout by csv_print
    log,            \* every request issued so far with the response it got
    fault,          \* the exception that ended the run, "none" if none
    run,            \* number of the current invocation of the script
    prev            \* request log and stdout of the previous invocation

vars == <<pc, docs, changed, schema_fields, used_fields, fields, records_total,
          idx, field_stats, stats, stdout, log, fault, run, prev>>

-----------------------------------------------------------------------------
(* Bounds of the model *)

MaxSchema == 2      \* longest field list of a schema response
MaxBody == 3        \* longest body (in characters) of a used-fields response
MaxDocs == 2        \* largest number of documents in the index

-----------------------------------------------------------------------------
(* Module constants of the script *)

FIELD_NAME == "field_name"
EXISTING == "existing"
EXISTING_PERCENTAGE == "existing_percentage"
NOTEXISTING == "notexisting"
NOTEXISTING_PERCENTAGE == "notexisting_percentage"
USED_FIELDS_DELIMITER == ","

get_header ==
    <<FIELD_NAME, EXISTING, EXISTING_PERCENTAGE, NOTEXISTING, NOTEXISTING_PERCENTAGE>>

-----------------------------------------------------------------------------
(* Text: a string is a sequence of characters *)

BodyChars == {"a", USED_FIELDS_DELIMITER, "\n"}   \* characters of a csv body

\* code point of a character (Python compares str by code point)
Ord(c) ==
    CASE c = "\n" -> 10
      [] c = "*" -> 42
      [] c = "," -> 44
      [] c = "-" -> 45
      [] c = "a" -> 97
      [] c = "b" -> 98

\* s < t for Python str
RECURSIVE StrLess(_, _)
StrLess(s, t) ==
    IF t = <<>> THEN FALSE
    ELSE IF s = <<>> THEN TRUE
    ELSE IF Head(s) = Head(t) THEN StrLess(Tail(s), Tail(t))
    ELSE Ord(Head(s)) < Ord(Head(t))

\* index of the first occurrence of c in s, 0 if none
FirstIndex(s, c) ==
    IF \E i \in 1..Len(s) : s[i] = c
    THEN CHOOSE i \in 1..Len(s) : s[i] = c /\ \A j \in 1..(i - 1) : s[j] # c
    ELSE 0

\* str.splitlines(): no line for an empty string or after a final line break
RECURSIVE splitlines(_)
splitlines(s) ==
    IF s = <<>> THEN <<>>
    ELSE LET i == FirstIndex(s, "\n")
         IN  IF i = 0 THEN <<s>>
             ELSE <<SubSeq(s, 1, i - 1)>> \o splitlines(SubSeq(s, i + 1, Len(s)))

\* str.split(sep): always at least one element, the empty string included
RECURSIVE split(_, _)
split(s, sep) ==
    LET i == FirstIndex(s, sep)
    IN  IF i = 0 THEN <<s>>
        ELSE <<SubSeq(s, 1, i - 1)>> \o split(SubSeq(s, i + 1, Len(s)), sep)

\* set(list)
set(list) == {list[i] : i \in DOMAIN list}

\* SortedSet(s): the elements of s in ascending str order
RECURSIVE SortedSet(_)
SortedSet(s) ==
    IF s = {} THEN <<>>
    ELSE LET m == CHOOSE x \in s : \A y \in s \ {x} : StrLess(x, y)
         IN  <<m>> \o SortedSet(s \ {m})

\* all sequences over S of length at most n
SeqUpTo(S, n) == UNION {[1..k -> S] : k \in 0..n}

-----------------------------------------------------------------------------
(* The remote index *)

DocFields == {<<"a">>, <<"b">>}         \* field names documents may carry
DocTypes == SUBSET DocFields            \* a document is the set of its fields
SchemaNames == {<<"a">>, <<"b">>}        \* names a schema may declare

RECURSIVE BagSum(_, _)
BagSum(bag, S) ==
    IF S = {} THEN 0
    ELSE LET d == CHOOSE x \in S : TRUE IN bag[d] + BagSum(bag, S \ {d})

IndexStates == {bag \in [DocTypes -> 0..MaxDocs] : BagSum(bag, DocTypes) <= MaxDocs}

MATCH_ALL == <<"*">>

\* the query parser of the index rejects a query that names no field
Parseable(q) == q # <<>> /\ q # <<"-">>

\* numFound of q=<q>:* on the index
NumFound(q, bag) ==
    IF q = MATCH_ALL THEN BagSum(bag, DocTypes)
    ELSE IF Head(q) = "-" THEN BagSum(bag, {d \in DocTypes : Tail(q) \notin d})
    ELSE BagSum(bag, {d \in DocTypes : q \in d})

\* A response: timeout (requests.get raised), status code, and the decoded
\* content.  outer/inner: the two nested keys the caller looks for ("schema"/
\* "fields", "response"/"numFound"); names: schema field names; numFound: the
\* count; text: the body of a csv response.
Response(to, code, o, i, ns, n, t) ==
    [timeout |-> to, status_code |-> code, outer |-> o, inner |-> i,
     names |-> ns, numFound |-> n, text |-> t]

\* responses that carry nothing the caller reads
FailedResponses ==
    {Response(TRUE, 0, FALSE, FALSE, <<>>, 0, <<>>),
     Response(FALSE, 500, FALSE, FALSE, <<>>, 0, <<>>)}

MisshapenResponses ==
    {Response(FALSE, 200, FALSE, FALSE, <<>>, 0, <<>>),
     Response(FALSE, 200, TRUE, FALSE, <<>>, 0, <<>>)}

SchemaResponses ==
    FailedResponses \cup MisshapenResponses \cup
    {Response(FALSE, 200, TRUE, TRUE, ns, 0, <<>>) : ns \in SeqUpTo(SchemaNames, MaxSchema)}

UsedFieldsResponses ==
    FailedResponses \cup
    {Response(FALSE, 200, FALSE, FALSE, <<>>, 0, t) : t \in SeqUpTo(BodyChars, MaxBody)}

\* the answers the index can give to a count query q on its current contents
SelectResponses(q, bag) ==
    FailedResponses \cup
    IF Parseable(q)
    THEN MisshapenResponses \cup {Response(FALSE, 200, TRUE, TRUE, <<>>, NumFound(q, bag), <<>>)}
    ELSE {Response(FALSE, 400, FALSE, FALSE, <<>>, 0, <<>>)}

\* a request: the path under the core, the q parameter and the wt parameter
Request(path, q, wt) == [path |-> path, q |-> q, wt |-> wt]

\* The answers the index may give to req when S are the answers its contents
\* allow: an index left alone answers a request of the previous invocation as
\* it answered then.
Answers(req, S) ==
    IF run = 2 /\ \E i \in DOMAIN prev.log : prev.log[i].request = req
    THEN {prev.log[i].response : i \in {j \in DOMAIN prev.log : prev.log[j].request = req}}
    ELSE S

-----------------------------------------------------------------------------
(* Pure functions of the script *)

\* solr_request returns the body (no exception)
solr_request_ok(resp) == ~resp.timeout /\ resp.status_code = 200

\* get_schema_fields: the shape check
schema_shape_ok(resp) == resp.outer /\ resp.inner

\* variant: a response of several lines passes and its first line is used
used_shape_ok_lenient(lines) == Len(lines) >= 1

\* get_used_fields: the shape check on the lines of the response
used_shape_ok(lines) == Len(lines) = 1

\* get_records_total / get_field_total: the shape check
total_shape_ok(resp) == resp.outer /\ resp.inner

\* variant: the concatenated list is returned as it is
get_fields_list(schema, used) == schema \o used

\* variant: the set is iterated in an order that differs between invocations
get_fields_unstable(schema, used) ==
    LET sorted == SortedSet(set(schema \o used))
    IN  IF run = 1 THEN sorted
        ELSE [i \in 1..Len(sorted) |-> sorted[Len(sorted) + 1 - i]]

\* get_fields
get_fields(schema, used) == SortedSet(set(schema \o used))

\* variant: the second call repeats the field-present query
neg_field_same(field) == field

\* the query of the field-absent call
neg_field(field) == <<"-">> \o field

\* round n/d to the nearest integer, ties to even
RoundHalfEven(n, d) ==
    LET q == n \div d
        r == n % d
    IN  IF 2 * r < d THEN q
        ELSE IF 2 * r > d THEN q + 1
        ELSE IF q % 2 = 0 THEN q ELSE q + 1

\* "{0:.2f}".format(count / total * 100): <<whole part, first digit, second digit>>
format_percentage(field_total, total) ==
    LET h == RoundHalfEven(field_total * 10000, total)
    IN  <<h \div 100, (h \div 10) % 10, h % 10>>

\* variant: the percentage is taken of the field's own count
get_field_statistics_self(field_total, total) ==
    <<field_total, format_percentage(field_total, IF field_total = 0 THEN total ELSE field_total)>>

\* get_field_statistics, after get_field_total returned field_total
get_field_statistics(field_total, total) ==
    <<field_total, format_percentage(field_total, total)>>

\* the dictionary get_all_field_statistics returns
get_all_field_statistics(field, fstats, neg_stats) ==
    [field_name |-> field,
     existing |-> fstats[1],
     existing_percentage |-> fstats[2],
     notexisting |-> neg_stats[1],
     notexisting_percentage |-> neg_stats[2]]

\* the row DictWriter writes for a dictionary: its values in header order
writerow(d) ==
    <<d.field_name, d.existing, d.existing_percentage, d.notexisting,
      d.notexisting_percentage>>

\* variant: the newest dictionary goes first
collect_front(list, d) == <<d>> \o list

\* the list comprehension of run: the dictionary of the next field goes last
collect(list, d) == Append(list, d)

\* the requests
schema_request == Request("schema", <<>>, "json")
used_fields_request == Request("select", MATCH_ALL, "csv")
total_request == Request("select", MATCH_ALL, "json")
field_total_request(field) == Request("select", field, "json")

\* variant: the failed call is made again
on_exception_retry(p) == p

\* where run() is after an exception: nothing catches it
on_exception(p) == "failed"

-----------------------------------------------------------------------------
(* The run *)

NoPrev == [log |-> <<>>, stdout |-> <<>>, fault |-> "none"]

Init ==
    /\ pc = "get_schema_fields"
    /\ docs \in IndexStates
    /\ changed = FALSE
    /\ schema_fields = <<>>
    /\ used_fields = <<>>
    /\ fields = <<>>
    /\ records_total = 0
    /\ idx = 1
    /\ field_stats = <<>>
    /\ stats = <<>>
    /\ stdout = <<>>
    /\ log = <<>>
    /\ fault = "none"
    /\ run = 1
    /\ prev = NoPrev

\* an exception leaves the function: the run ends with it
Raise(exc) ==
    /\ pc' = on_exception(pc)
    /\ fault' = exc
    /\ UNCHANGED <<schema_fields, used_fields, fields, records_total, idx,
                   field_stats, stats, stdout>>

\* the exception solr_request ends with on a response that is not a 200
RequestError(resp) == IF resp.timeout THEN "Timeout" ELSE "RuntimeError"

\* run: get_fields, first half: get_schema_fields
GetSchemaFields ==
    /\ pc = "get_schema_fields"
    /\ \E resp \in Answers(schema_request, SchemaResponses) :
          /\ log' = Append(log, [request |-> schema_request, response |-> resp])
          /\ IF ~solr_request_ok(resp) THEN Raise(RequestError(resp))
             ELSE IF ~schema_shape_ok(resp) THEN Raise("RuntimeError")
             ELSE /\ schema_fields' = resp.names
                  /\ pc' = "get_used_fields"
                  /\ UNCHANGED <<used_fields, fields, records_total, idx, field_stats,
                                 stats, stdout, fault>>
    /\ UNCHANGED <<docs, changed, run, prev>>

\* run: get_fields, second half: get_used_fields, then the SortedSet
GetUsedFields ==
    /\ pc = "get_used_fields"
    /\ \E resp \in Answers(used_fields_request, UsedFieldsResponses) :
          /\ log' = Append(log, [request |-> used_fields_request, response |-> resp])
          /\ IF ~solr_request_ok(resp) THEN Raise(RequestError(resp))
             ELSE IF ~used_shape_ok(splitlines(resp.text)) THEN Raise("RuntimeError")
             ELSE /\ used_fields' = split(splitlines(resp.text)[1], USED_FIELDS_DELIMITER)
                  /\ fields' = get_fields(schema_fields, used_fields')
                  /\ pc' = "get_records_total"
                  /\ UNCHANGED <<schema_fields, records_total, idx, field_stats, stats,
                                 stdout, fault>>
    /\ UNCHANGED <<docs, changed, run, prev>>

\* run: get_records_total, then the list comprehension starts
GetRecordsTotal ==
    /\ pc = "get_records_total"
    /\ \E resp \in Answers(total_request, SelectResponses(MATCH_ALL, docs)) :
          /\ log' = Append(log, [request |-> total_request, response |-> resp])
          /\ IF ~solr_request_ok(resp) THEN Raise(RequestError(resp))
             ELSE IF ~total_shape_ok(resp) THEN Raise("RuntimeError")
             ELSE /\ records_total' = resp.numFound
                  /\ idx' = 1
                  /\ pc' = IF fields = <<>> THEN "csv_print" ELSE "get_field_stats"
                  /\ UNCHANGED <<schema_fields, used_fields, fields, field_stats, stats,
                                 stdout, fault>>
    /\ UNCHANGED <<docs, changed, run, prev>>

\* get_all_field_statistics, first call of get_field_statistics
GetFieldStats ==
    /\ pc = "get_field_stats"
    /\ LET req == field_total_request(fields[idx])
       IN  \E resp \in Answers(req, SelectResponses(req.q, docs)) :
             /\ log' = Append(log, [request |-> req, response |-> resp])
             /\ IF ~solr_request_ok(resp) THEN Raise(RequestError(resp))
                ELSE IF ~total_shape_ok(resp) THEN Raise("RuntimeError")
                ELSE IF records_total = 0 THEN Raise("ZeroDivisionError")
                ELSE /\ field_stats' = get_field_statistics(resp.numFound, records_total)
                     /\ pc' = "get_field_neg_stats"
                     /\ UNCHANGED <<schema_fields, used_fields, fields, records_total,
                                    idx, stats, stdout, fault>>
    /\ UNCHANGED <<docs, changed, run, prev>>

\* get_all_field_statistics, second call of get_field_statistics; the
\* dictionary joins the list and the comprehension moves to the next field
GetFieldNegStats ==
    /\ pc = "get_field_neg_stats"
    /\ LET req == field_total_request(neg_field(fields[idx]))
       IN  \E resp \in Answers(req, SelectResponses(req.q, docs)) :
             /\ log' = Append(log, [request |-> req, response |-> resp])
             /\ IF ~solr_request_ok(resp) THEN Raise(RequestError(resp))
                ELSE IF ~total_shape_ok(resp) THEN Raise("RuntimeError")
                ELSE IF records_total = 0 THEN Raise("ZeroDivisionError")
                ELSE /\ stats' = collect(stats,
                                     get_all_field_statistics(fields[idx], field_stats,
                                         get_field_statistics(resp.numFound, records_total)))
                     /\ field_stats' = <<>>
                     /\ idx' = IF idx = Len(fields) THEN 1 ELSE idx + 1
                     /\ pc' = IF idx = Len(fields) THEN "csv_print" ELSE "get_field_stats"
                     /\ UNCHANGED <<schema_fields, used_fields, fields, records_total,
                                    stdout, fault>>
    /\ UNCHANGED <<docs, changed, run, prev>>

\* variant: the header is written before the per-field queries start
CsvWriteHeaderFirst ==
    /\ pc = "get_field_stats"
    /\ stdout = <<>>
    /\ stdout' = Append(stdout, get_header)
    /\ UNCHANGED <<pc, idx, docs, changed, schema_fields, used_fields, fields,
                   records_total, field_stats, stats, log, fault, run, prev>>

\* csv_print: writer.writeheader()
CsvWriteHeader ==
    /\ pc = "csv_print"
    /\ stdout' = Append(stdout, get_header)
    /\ idx' = 1
    /\ pc' = IF stats = <<>> THEN "done" ELSE "csv_rows"
    /\ UNCHANGED <<docs, changed, schema_fields, used_fields, fields, records_total,
                   field_stats, stats, log, fault, run, prev>>

\* csv_print: writer.writerow(field_statistic) for the next dictionary
CsvWriteRow ==
    /\ pc = "csv_rows"
    /\ stdout' = Append(stdout, writerow(stats[idx]))
    /\ idx' = IF idx = Len(stats) THEN 1 ELSE idx + 1
    /\ pc' = IF idx = Len(stats) THEN "done" ELSE "csv_rows"
    /\ UNCHANGED <<docs, changed, schema_fields, used_fields, fields, records_total,
                   field_stats, stats, log, fault, run, prev>>

\* the environment: a document is added to or deleted from the index while
\* the run is issuing its per-field queries (once per run)
IndexUpdate ==
    /\ pc \in {"get_field_stats", "get_field_neg_stats"}
    /\ ~changed
    /\ \E d \in DocTypes, n \in {-1, 1} :
          /\ docs[d] + n >= 0
          /\ BagSum(docs, DocTypes) + n <= MaxDocs
          /\ docs' = [docs EXCEPT ![d] = @ + n]
    /\ changed' = TRUE
    /\ UNCHANGED <<pc, schema_fields, used_fields, fields, records_total, idx,
                   field_stats, stats, stdout, log, fault, run, prev>>

\* the script is invoked a second time, on the index as it is
Restart ==
    /\ run = 1
    /\ pc \in {"done", "failed"}
    /\ run' = 2
    /\ prev' = [log |-> log, stdout |-> stdout, fault |-> fault]
    /\ pc' = "get_schema_fields"
    /\ changed' = FALSE
    /\ schema_fields' = <<>>
    /\ used_fields' = <<>>
    /\ fields' = <<>>
    /\ records_total' = 0
    /\ idx' = 1
    /\ field_stats' = <<>>
    /\ stats' = <<>>
    /\ stdout' = <<>>
    /\ log' = <<>>
    /\ fault' = "none"
    /\ UNCHANGED docs

Next ==
    \/ GetSchemaFields
    \/ GetUsedFields
    \/ GetRecordsTotal
    \/ GetFieldStats
    \/ GetFieldNegStats
    \/ CsvWriteHeader
    \/ CsvWriteRow
    \/ IndexUpdate

Spec == Init /\ [][Next]_vars

\* two invocations in a row against an index nobody updates
NextTwice ==
    \/ GetSchemaFields
    \/ GetUsedFields
    \/ GetRecordsTotal
    \/ GetFieldStats
    \/ GetFieldNegStats
    \/ CsvWriteHeader
    \/ CsvWriteRow
    \/ Restart

SpecTwice == Init /\ [][NextTwice]_vars

-----------------------------------------------------------------------------
(* Vocabulary of the properties *)

Requests == [i \in DOMAIN log |-> log[i].request]

\* the call got no usable answer: no 200, or a payload without the shape its
\* caller expects
Answered(e) == ~e.response.timeout /\ e.response.status_code = 200
SchemaMisshapen(e) ==
    Answered(e) /\ e.request.path = "schema" /\ ~(e.response.outer /\ e.response.inner)
UsedMisshapen(e) ==
    Answered(e) /\ e.request.wt = "csv" /\ Len(splitlines(e.response.text)) # 1
CountMisshapen(e) ==
    /\ Answered(e) /\ e.request.path = "select" /\ e.request.wt = "json"
    /\ ~(e.response.outer /\ e.response.inner)
CallFailed(e) ==
    ~Answered(e) \/ SchemaMisshapen(e) \/ UsedMisshapen(e) \/ CountMisshapen(e)

IsCountRequest(r) == r.path = "select" /\ r.wt = "json"
IsFieldRequest(r) == IsCountRequest(r) /\ r.q # <<"*">>

\* get_fields has returned
Discovered == pc = "get_records_total" \/ Len(log) > 2

\* the request trace of a full run over the field set fs
ExpectedTrace(fs) ==
    [i \in 1..(3 + 2 * Len(fs)) |->
        IF i = 1 THEN [path |-> "schema", q |-> <<>>, wt |-> "json"]
        ELSE IF i = 2 THEN [path |-> "select", q |-> <<"*">>, wt |-> "csv"]
        ELSE IF i = 3 THEN [path |-> "select", q |-> <<"*">>, wt |-> "json"]
        ELSE IF i % 2 = 0 THEN [path |-> "select", q |-> fs[(i - 2) \div 2], wt |-> "json"]
        ELSE [path |-> "select", q |-> <<"-">> \o fs[(i - 3) \div 2], wt |-> "json"]]

IsPrefix(s, t) == Len(s) <= Len(t) /\ \A i \in 1..Len(s) : s[i] = t[i]

-----------------------------------------------------------------------------
(* Properties *)

\* C1: while the index is not updated during the run, every coverage record
\* built so far has existing + notexisting equal to the records total (> 0).
CountsPartitionTotal ==
    ~changed =>
        \A i \in DOMAIN stats :
            records_total > 0 /\ stats[i].existing + stats[i].notexisting = records_total

CountsPartitionTotalWitness ==
    /\ pc = "done" /\ ~changed /\ Len(stats) >= 2
    /\ \E i \in DOMAIN stats : stats[i].existing > 0 /\ stats[i].notexisting > 0

\* C2: once get_fields has returned, the field set holds exactly the names of
\* the schema list and of the used-fields list, strictly ascending in string
\* order (hence without duplicates).
FieldSetIsSortedUnion ==
    Discovered =>
        /\ set(fields) = set(schema_fields) \cup set(used_fields)
        /\ \A i, j \in DOMAIN fields : i < j => StrLess(fields[i], fields[j])

FieldSetIsSortedUnionWitness ==
    /\ Discovered
    /\ Len(fields) >= 2
    /\ set(schema_fields) \cap set(used_fields) # {}
    /\ Len(schema_fields) > Cardinality(set(schema_fields))

\* C3: when the total-count query answers 0, no percentage computation ends
\* the run with a numeric fault, and every record of a completed run has both
\* percentages "0.00".
ZeroTotalGivesZeroPercent ==
    (Len(log) >= 3 /\ ~CallFailed(log[3]) /\ log[3].response.numFound = 0) =>
        /\ fault # "ZeroDivisionError"
        /\ pc = "done" =>
              /\ Len(stats) = Len(fields)
              /\ \A i \in DOMAIN stats :
                    /\ stats[i].existing_percentage = <<0, 0, 0>>
                    /\ stats[i].notexisting_percentage = <<0, 0, 0>>

\* C4: nothing is on stdout before the record of the last field is computed,
\* and a run that ended with an exception has written nothing.
NoOutputBeforeReportComplete ==
    stdout # <<>> =>
        /\ fault = "none"
        /\ Len(stats) = Len(fields)
        /\ pc \in {"csv_rows", "done"}

NoOutputBeforeReportCompleteWitness ==
    /\ pc = "failed" /\ Len(stats) >= 1 /\ Len(stats) < Len(fields)
    /\ CallFailed(log[Len(log)])
    /\ stdout = <<>>

\* C5: a failed call is the last call of the run (it is not repeated and no
\* other call follows it), and the run has ended with its exception.
FailFast ==
    \A i \in DOMAIN log :
        CallFailed(log[i]) => i = Len(log) /\ pc = "failed" /\ fault # "none"

FailFastWitness ==
    /\ pc = "failed" /\ Len(fields) >= 2
    /\ Len(log) = 4 /\ CallFailed(log[4])

\* C6: when the schema payload lacks its keys, or the used-fields response is
\* not exactly one line, the run ends with a RuntimeError and no total-count
\* or per-field query is ever issued.
DiscoveryFailureStopsRun ==
    (\E i \in DOMAIN log : SchemaMisshapen(log[i]) \/ UsedMisshapen(log[i])) =>
        /\ fault = "RuntimeError"
        /\ \A i \in DOMAIN log : ~IsCountRequest(log[i].request)

DiscoveryFailureStopsRunWitness ==
    /\ pc = "failed" /\ Len(log) = 2
    /\ Answered(log[2]) /\ Len(splitlines(log[2].response.text)) = 2

\* C7: when the schema declares no field and the used-fields listing names
\* none, discovery does not fail, the field set is empty, no per-field query is
\* issued and there are no records.
EmptyCollectionIsNoError ==
    (/\ Len(log) >= 2
     /\ Answered(log[1]) /\ ~SchemaMisshapen(log[1]) /\ log[1].response.names = <<>>
     /\ Answered(log[2]) /\ log[2].response.text \in {<<>>, <<"\n">>}) =>
        /\ Len(log) = 2 => fault = "none"
        /\ fields = <<>>
        /\ stats = <<>>
        /\ \A i \in DOMAIN log : ~IsFieldRequest(log[i].request)

\* C8: a completed run has written, after the header, one row per field of
\* the field set, the i-th row carrying the i-th field name.
RowsFollowFieldSet ==
    pc = "done" =>
        /\ Len(stdout) = Len(fields) + 1
        /\ \A i \in DOMAIN fields : stdout[i + 1][1] = fields[i]

RowsFollowFieldSetWitness ==
    pc = "done" /\ Len(fields) >= 3

RequestTraceIsLinear ==
    (Discovered /\ fault = "none") =>
        /\ IsPrefix(Requests, ExpectedTrace(fields))
        /\ pc \in {"csv_print", "csv_rows", "done"} <=> Len(log) = 3 + 2 * Len(fields)
        /\ stdout # <<>> => Len(log) = 3 + 2 * Len(fields)
        /\ \A i \in DOMAIN stats :
              LET total == log[3].response.numFound IN
              /\ stats[i].existing_percentage = format_percentage(stats[i].existing, total)
              /\ stats[i].notexisting_percentage =
                    format_percentage(stats[i].notexisting, total)

RequestTraceIsLinearWitness ==
    pc = "done" /\ Len(fields) >= 2 /\ Len(log) = 3 + 2 * Len(fields)

====
